---- MODULE Spec2Model ----
(***************************************************************************)
(* Model of esbulk's Runner.Run: the index lifecycle orchestration around  *)
(* the producer / unbuffered queue / worker pool pipeline.                 *)
(*                                                                         *)
(* Run is one process whose position is pc; the workers are processes      *)
(* that rendezvous with Run on the unbuffered channel `queue`.  Every HTTP *)
(* request is one step whose outcome is drawn from the outcomes the        *)
(* transport can report.                                                   *)
(***************************************************************************)
EXTENDS Integers, Sequences, FiniteSets, TLC

\* ---------------------------------------------------------------- bounds
MaxServers  == 2    \* len(options.Servers) ranges over 1..MaxServers
MaxWorkers  == 2    \* r.NumWorkers ranges over 0..MaxWorkers
MaxBatch    == 2    \* r.BatchSize ranges over 1..MaxBatch
MaxLines    == 3    \* lines in the input file
MaxReplicas == 1    \* number_of_replicas of a server before the run

\* ------------------------------------------------------------- variables
VARIABLES
    r,          \* the Runner's options: NumWorkers, BatchSize, Servers, ...
    run,        \* "running" | "returned" | "fatal" (log.Fatal: os.Exit(1))
    fatalBy,    \* who called log.Fatal: "none" | "gzip" | "worker"
    pc,         \* position of Run
    i,          \* loop variable of the per-server setup loop
    retErr,     \* the value Run returns: "nil" | "err"
    defers,     \* deferred closures, in registration order
    dptr,       \* index in defers of the closure that runs next (LIFO)
    ran,        \* iterations whose deferred closure has run to its end
    srv,        \* per server: the index's number_of_replicas
    srv0,       \* the same, before the run
    lastReq,    \* the latest request the orchestrator issued
    issued,     \* the requests of the closure that ran last (or is running)
    allOK,      \* every request so far was answered with a status < 400
    refreshOff, \* per iteration: the outcome of its refresh_interval = -1
                \* request, "none" before it is issued
    fileLen,    \* number of lines in r.File
    input,      \* what ReadString has returned so far
    line,       \* position in input of the line being enqueued
    counter,    \* Run's document counter
    closed,     \* close(queue) was called
    wg,         \* the WaitGroup's counter
    wstate,     \* per worker: "none" | "recv" | "flush" | "final" | "done"
    docs,       \* per worker: the batch under construction
    sent,       \* how many bulk requests have carried each line
    enq         \* lines handed to a worker, in hand-off order

vars == <<r, run, fatalBy, pc, i, retErr, defers, dptr,
          ran, srv, srv0, lastReq, issued, allOK, refreshOff, fileLen, input, line,
          counter, closed, wg, wstate, docs, sent, enq>>

orchVars == <<i, defers, dptr, ran, srv, lastReq, issued, allOK, refreshOff>>
pipeVars == <<input, line, counter, closed, wg, wstate, docs, sent, enq>>
cfgVars  == <<r, srv0, fileLen>>

Workers == 1..MaxWorkers
Servers == 1..r.NumServers

\* ------------------------------------------------------- pure functions

\* The characters strings.TrimSpace removes.
IsSpace(c) == c \in {" ", "\n", "\t", "\r"}

RECURSIVE TrimLeft(_)
TrimLeft(s) ==
    IF s = <<>> THEN s
    ELSE IF IsSpace(Head(s)) THEN TrimLeft(Tail(s)) ELSE s

RECURSIVE TrimRight(_)
TrimRight(s) ==
    IF s = <<>> THEN s
    ELSE IF IsSpace(s[Len(s)]) THEN TrimRight(SubSeq(s, 1, Len(s) - 1)) ELSE s

\* strings.TrimSpace
TrimSpace(s) == TrimRight(TrimLeft(s))

\* IsJSON on the model's alphabet: a run of digits is a JSON number, and
\* that is the only valid document the alphabet can spell.
IsJSON(str) == str # <<>> /\ \A k \in 1..Len(str) : str[k] \in {"1", "2"}

\* The texts a line of the input can hold (before its newline).
LineTexts == { <<" ">>, <<" ", "1">>, <<"x">> }

\* What the settings document says for number_of_replicas: a string.
DigitStr(n) == IF n = 0 THEN "0" ELSE IF n = 1 THEN "1"
               ELSE IF n = 2 THEN "2" ELSE IF n = 3 THEN "3" ELSE "4"

\* fmt.Sprintf(`%q`, numberOfReplicas) for a string value
Quote(s) == "\"" \o s \o "\""

\* The server's reading of a number_of_replicas value in a settings body:
\* a bare number or a quoted one; -1 when it is neither.
ParseReplicas(v) ==
    IF \E n \in 0..(MaxReplicas + 1) : v = DigitStr(n) \/ v = Quote(DigitStr(n))
    THEN CHOOSE n \in 0..(MaxReplicas + 1) : v = DigitStr(n) \/ v = Quote(DigitStr(n))
    ELSE -1

\* The outcomes of a request: response with status < 400, response with
\* status >= 400, transport error.
Outcomes == {"ok", "status", "err"}

Req(phase, iter, kind, server, outcome) ==
    [phase |-> phase, iter |-> iter, kind |-> kind, server |-> server,
     outcome |-> outcome]

\* ------------------------------------------------------------------ Init
NoReq == Req("none", 0, "none", 0, "none")

\* The state after the Runner is built with options in R and a file whose
\* number of lines is in L.
InitWith(R, L) ==
    /\ r \in R
    /\ fileLen \in L
    /\ run = "running"
    /\ fatalBy = "none"
    /\ pc = "start"
    /\ i = 1
    /\ retErr = "nil"
    /\ defers = <<>>
    /\ dptr = 0
    /\ ran = {}
    /\ srv \in [1..r.NumServers -> 1..MaxReplicas]
    /\ srv0 = srv
    /\ lastReq = NoReq
    /\ issued = <<>>
    /\ allOK = TRUE
    /\ refreshOff = [k \in 1..r.NumServers |-> "none"]
    /\ input = <<>>
    /\ line = 0
    /\ counter = 0
    /\ closed = FALSE
    /\ wg = 0
    /\ wstate = [w \in Workers |-> "none"]
    /\ docs = [w \in Workers |-> <<>>]
    /\ sent = [l \in 1..MaxLines |-> 0]
    /\ enq = <<>>

\* The orchestration of several servers around a short load: one worker
\* and a file of at most one line, sent as a full batch (BatchSize 1) or as
\* the last, partial one (BatchSize 2).  (SpecPipeline explores the load.)
OrchOptions ==
    [NumWorkers : {1}, BatchSize : {1, 2}, NumServers : 1..MaxServers,
     ZeroReplica : BOOLEAN, SkipBroken : {FALSE}, FileGzipped : BOOLEAN]

Init == InitWith(OrchOptions, 0..1)

\* The whole pipeline in front of one server.
PipelineOptions ==
    [NumWorkers : 0..MaxWorkers, BatchSize : 1..MaxBatch, NumServers : {1},
     ZeroReplica : BOOLEAN, SkipBroken : BOOLEAN, FileGzipped : {FALSE}]

InitPipeline == InitWith(PipelineOptions, 0..MaxLines)

\* The pipeline with every number of workers, none included, in the mode
\* that issues every request of the setup and drops every kind of line.
LiveOptions ==
    [NumWorkers : 0..MaxWorkers, BatchSize : 1..MaxBatch, NumServers : {1},
     ZeroReplica : {TRUE}, SkipBroken : {TRUE}, FileGzipped : {FALSE}]

InitLive == InitWith(LiveOptions, 0..MaxLines)

\* ------------------------------------------------------ Run: termination

\* `return e`: the result is set, then the deferred closures run, last
\* registered first; Run has returned once none is left.
Return(e) ==
    /\ retErr' = e
    /\ dptr' = Len(defers)
    /\ IF Len(defers) = 0
       THEN pc' = "done" /\ run' = "returned"
       ELSE pc' = "restore_refresh" /\ run' = run

\* log.Fatal: the process exits at once; no deferred closure runs.
Fatal(who) ==
    /\ run' = "fatal"
    /\ fatalBy' = who

\* ------------------------------------------------- Run: before the loop

\* Version flag (return nil), profile, index name, purge, create index,
\* mapping (return err on failure): all before any worker exists.
Preflight ==
    /\ run = "running" /\ pc = "start"
    /\ \E o \in {"go", "nil", "err"} :
         IF o = "go" THEN /\ pc' = "spawn"
                          /\ UNCHANGED <<retErr, dptr, run>>
                     ELSE Return(o)
    /\ UNCHANGED <<cfgVars, fatalBy, i, defers, ran, srv, lastReq, issued,
                   allOK, refreshOff, pipeVars>>

\* wg.Add(r.NumWorkers); go Worker(...) for each.
Spawn ==
    /\ run = "running" /\ pc = "spawn"
    /\ wg' = wg + r.NumWorkers
    /\ wstate' = [w \in Workers |-> IF w <= r.NumWorkers THEN "recv" ELSE "none"]
    /\ pc' = "get"
    /\ UNCHANGED <<cfgVars, run, fatalBy, retErr, orchVars, input, line,
                   counter, closed, docs, sent, enq>>

\* ------------------------------------------------ Run: per-server setup

\* rand.Intn(len(options.Servers)): the server a settings request goes to
\* does not depend on the iteration that issues it.
TargetServers(iter) == Servers

\* What a number_of_replicas request does to the server it reaches.
ApplyReplicas(s, value, outcome) ==
    IF outcome = "ok" THEN [srv EXCEPT ![s] = ParseReplicas(value)] ELSE srv

\* for i := range options.Servers: the next iteration, or the end of the loop.
NextIter ==
    IF i < r.NumServers
    THEN i' = i + 1 /\ pc' = "get"
    ELSE i' = i /\ pc' = "open"

\* doc, err := GetSettings(i, options); on success the closure is deferred.
GetSettingsStep ==
    /\ run = "running" /\ pc = "get"
    /\ \E o \in {"ok", "err"} :
         /\ lastReq' = Req("setup", i, "get", i, o)
         /\ allOK' = (allOK /\ o = "ok")
         /\ IF o = "err"
            THEN /\ Return("err")
                 /\ UNCHANGED defers
            ELSE /\ defers' = Append(defers,
                        [iter |-> i,
                         numberOfReplicas |-> DigitStr(srv[i]),
                         err |-> "nil"])
                 /\ pc' = "refresh_off"
                 /\ UNCHANGED <<retErr, dptr, run>>
    /\ UNCHANGED <<cfgVars, fatalBy, i, ran, srv, issued, refreshOff, pipeVars>>

\* Variant of RefreshFailed: the status of the response is not looked at.
RefreshFailedErrOnly(o) == o = "err"

\* if err != nil { return err }; if resp.StatusCode >= 400 { return ... }
RefreshFailed(o) == o = "err" \/ o = "status"

\* indexSettingsRequest(`{"index": {"refresh_interval": "-1"}}`, options)
DisableRefresh ==
    /\ run = "running" /\ pc = "refresh_off"
    /\ \E s \in TargetServers(i), o \in Outcomes :
         /\ lastReq' = Req("setup", i, "refresh_off", s, o)
         /\ allOK' = (allOK /\ o = "ok")
         /\ refreshOff' = [refreshOff EXCEPT ![i] = o]
         /\ srv' = srv
         /\ IF RefreshFailed(o)
            THEN /\ Return("err")
                 /\ i' = i
            ELSE /\ IF r.ZeroReplica
                    THEN pc' = "replicas_zero" /\ i' = i
                    ELSE NextIter
                 /\ UNCHANGED <<retErr, dptr, run>>
    /\ UNCHANGED <<cfgVars, fatalBy, defers, ran, issued, pipeVars>>

\* indexSettingsRequest(`{"index": {"number_of_replicas": 0}}`, options):
\* only the transport error is looked at.
ZeroReplicas ==
    /\ run = "running" /\ pc = "replicas_zero"
    /\ \E s \in TargetServers(i), o \in Outcomes :
         /\ lastReq' = Req("setup", i, "replicas_zero", s, o)
         /\ allOK' = (allOK /\ o = "ok")
         /\ srv' = ApplyReplicas(s, DigitStr(0), o)
         /\ IF o = "err"
            THEN /\ Return("err")
                 /\ i' = i
            ELSE /\ NextIter
                 /\ UNCHANGED <<retErr, dptr, run>>
    /\ UNCHANGED <<cfgVars, fatalBy, defers, ran, issued, refreshOff, pipeVars>>

\* ------------------------------------------- Run: the deferred closures

\* Variant of EndCleanup: one cleanup block for the whole function, so that
\* only the closure registered last runs.
EndCleanupOnlyLast ==
    /\ ran' = ran \cup {defers[dptr].iter}
    /\ dptr' = dptr - 1
    /\ pc' = "done" /\ run' = "returned"

\* The closure that is running has come to its end.
EndCleanup ==
    /\ ran' = ran \cup {defers[dptr].iter}
    /\ dptr' = dptr - 1
    /\ IF dptr = 1
       THEN pc' = "done" /\ run' = "returned"
       ELSE pc' = "restore_refresh" /\ run' = run

\* The closure's `err` is the loop body's err (doc, err := GetSettings),
\* not Run's result.
ClosureErr(o) == IF o = "err" THEN "err" ELSE "nil"

\* Variant of ClosureStops: the closure goes on after a transport error.
ClosureStopsNever(o) == FALSE

\* if _, err = indexSettingsRequest(...); err != nil { return }
ClosureStops(o) == o = "err"

\* indexSettingsRequest(`{"index": {"refresh_interval": "<r.RefreshInterval>"}}`)
RestoreRefresh ==
    /\ run = "running" /\ pc = "restore_refresh"
    /\ \E s \in TargetServers(defers[dptr].iter), o \in Outcomes :
         /\ lastReq' = Req("cleanup", defers[dptr].iter, "refresh_restore", s, o)
         /\ allOK' = (allOK /\ o = "ok")
         /\ issued' = <<"refresh_restore">>
         /\ srv' = srv
         /\ defers' = [defers EXCEPT ![dptr].err = ClosureErr(o)]
         /\ IF ClosureStops(o)
            THEN EndCleanup
            ELSE pc' = "restore_replicas" /\ UNCHANGED <<ran, dptr, run>>
    /\ UNCHANGED <<cfgVars, fatalBy, i, retErr, refreshOff, pipeVars>>

\* indexSettingsRequest(`{"index": {"number_of_replicas": %q}}`)
RestoreReplicas ==
    /\ run = "running" /\ pc = "restore_replicas"
    /\ \E s \in TargetServers(defers[dptr].iter), o \in Outcomes :
         /\ lastReq' = Req("cleanup", defers[dptr].iter, "replicas_restore", s, o)
         /\ allOK' = (allOK /\ o = "ok")
         /\ issued' = Append(issued, "replicas_restore")
         /\ srv' = ApplyReplicas(s, Quote(defers[dptr].numberOfReplicas), o)
         /\ defers' = [defers EXCEPT ![dptr].err = ClosureErr(o)]
         /\ IF ClosureStops(o)
            THEN EndCleanup
            ELSE pc' = "flush" /\ UNCHANGED <<ran, dptr, run>>
    /\ UNCHANGED <<cfgVars, fatalBy, i, retErr, refreshOff, pipeVars>>

\* The `i` the closure reads is the loop's variable, one variable for all
\* iterations (the language rule for code that declares no go >= 1.22): by
\* the time the closure runs it holds the value it had when Run returned.
ClosureI == i

\* err = FlushIndex(i, options)
Flush ==
    /\ run = "running" /\ pc = "flush"
    /\ \E o \in {"ok", "err"} :
         /\ lastReq' = Req("cleanup", defers[dptr].iter, "flush", ClosureI, o)
         /\ allOK' = (allOK /\ o = "ok")
         /\ issued' = Append(issued, "flush")
         /\ defers' = [defers EXCEPT ![dptr].err = ClosureErr(o)]
    /\ EndCleanup
    /\ UNCHANGED <<cfgVars, fatalBy, i, retErr, srv, refreshOff, pipeVars>>

\* ------------------------------------------------- Run: the read loop

\* reader = bufio.NewReader(r.File); with r.FileGzipped the gzip header is
\* read first, and a bad one is log.Fatal.
OpenReader ==
    /\ run = "running" /\ pc = "open"
    /\ \E ok \in (IF r.FileGzipped THEN BOOLEAN ELSE {TRUE}) :
         IF ok THEN pc' = "read" /\ UNCHANGED <<run, fatalBy>>
               ELSE Fatal("gzip") /\ pc' = pc
    /\ UNCHANGED <<cfgVars, retErr, orchVars, pipeVars>>

\* What ReadString('\n') hands back for a line of the file.
ReadResult(text, terminated) ==
    IF terminated THEN text \o <<"\n">> ELSE text

\* The line is dropped by the loop body: blank, or broken under SkipBroken.
Dropped(str) ==
    \/ Len(TrimSpace(str)) = 0
    \/ r.SkipBroken /\ ~IsJSON(TrimSpace(str))

\* line, err := reader.ReadString('\n') returned a whole line.
ReadLine ==
    /\ run = "running" /\ pc = "read"
    /\ Len(input) < fileLen
    /\ \E t \in LineTexts :
         /\ input' = Append(input, [text |-> t, terminated |-> TRUE])
         /\ IF Dropped(ReadResult(t, TRUE))
            THEN pc' = "read" /\ line' = line
            ELSE pc' = "send" /\ line' = Len(input) + 1
    /\ UNCHANGED <<cfgVars, run, fatalBy, retErr, orchVars, counter, closed,
                   wg, wstate, docs, sent, enq>>

\* ReadString returned io.EOF, with the text after the last newline (if
\* any): the loop breaks.
ReadEOF ==
    /\ run = "running" /\ pc = "read"
    /\ \/ Len(input) = fileLen /\ input' = input
       \/ /\ Len(input) = fileLen - 1
          /\ \E t \in LineTexts :
               input' = Append(input, [text |-> t, terminated |-> FALSE])
    /\ pc' = "close"
    /\ UNCHANGED <<cfgVars, run, fatalBy, retErr, orchVars, line, counter,
                   closed, wg, wstate, docs, sent, enq>>

\* ReadString returned another error: return err.
ReadError ==
    /\ run = "running" /\ pc = "read"
    /\ Return("err")
    /\ UNCHANGED <<cfgVars, fatalBy, i, defers, ran, srv, lastReq, issued,
                   allOK, refreshOff, pipeVars>>

\* Worker: docs = append(docs, s); a full batch is sent next.
WorkerAppend(w, l) ==
    /\ docs' = [docs EXCEPT ![w] = Append(@, l)]
    /\ wstate' = [wstate EXCEPT ![w] =
                    IF (Len(docs[w]) + 1) % r.BatchSize = 0
                    THEN "flush" ELSE "recv"]

\* Variant of Enqueue: a send that does not wait for the worker to be
\* receiving (a queue with room of its own).
EnqueueBuffered(w) ==
    /\ run = "running" /\ pc = "send"
    /\ wstate[w] # "none" /\ ~closed
    /\ WorkerAppend(w, line)
    /\ enq' = Append(enq, line)
    /\ pc' = "count"
    /\ UNCHANGED <<cfgVars, run, fatalBy, retErr, orchVars, input, line,
                   counter, closed, wg, sent>>

\* queue <- line: the hand-off to a worker that is receiving.
Enqueue(w) ==
    /\ run = "running" /\ pc = "send"
    /\ wstate[w] = "recv" /\ ~closed
    /\ WorkerAppend(w, line)
    /\ enq' = Append(enq, line)
    /\ pc' = "count"
    /\ UNCHANGED <<cfgVars, run, fatalBy, retErr, orchVars, input, line,
                   counter, closed, wg, sent>>

\* Variant of Count: the loop goes on without the increment.
CountSkipped ==
    /\ run = "running" /\ pc = "count"
    /\ counter' = counter
    /\ pc' = "read"
    /\ UNCHANGED <<cfgVars, run, fatalBy, retErr, orchVars, input, line,
                   closed, wg, wstate, docs, sent, enq>>

\* counter++
Count ==
    /\ run = "running" /\ pc = "count"
    /\ counter' = counter + 1
    /\ pc' = "read"
    /\ UNCHANGED <<cfgVars, run, fatalBy, retErr, orchVars, input, line,
                   closed, wg, wstate, docs, sent, enq>>

\* Variant of Close: the loop is left without closing the queue.
CloseSkipped ==
    /\ run = "running" /\ pc = "close"
    /\ closed' = closed
    /\ pc' = "wait"
    /\ UNCHANGED <<cfgVars, run, fatalBy, retErr, orchVars, input, line,
                   counter, wg, wstate, docs, sent, enq>>

\* close(queue)
Close ==
    /\ run = "running" /\ pc = "close"
    /\ closed' = TRUE
    /\ pc' = "wait"
    /\ UNCHANGED <<cfgVars, run, fatalBy, retErr, orchVars, input, line,
                   counter, wg, wstate, docs, sent, enq>>

\* Variant of WaitDone: Run does not wait for the workers.
WaitDoneAtOnce == TRUE

\* wg.Wait() returns once the counter is zero.
WaitDone == wg = 0

Wait ==
    /\ run = "running" /\ pc = "wait"
    /\ WaitDone
    /\ pc' = "memprofile"
    /\ UNCHANGED <<cfgVars, run, fatalBy, retErr, orchVars, pipeVars>>

\* The heap profile and the rate line; return nil, or the error of
\* os.Create(r.MemProfile).
Finish ==
    /\ run = "running" /\ pc = "memprofile"
    /\ \E e \in {"nil", "err"} : Return(e)
    /\ UNCHANGED <<cfgVars, fatalBy, i, defers, ran, srv, lastReq, issued,
                   allOK, refreshOff, pipeVars>>

\* ------------------------------------------------------------ Worker

\* The bulk request carried the worker's batch.
Delivered(w) ==
    [l \in 1..MaxLines |->
        sent[l] + Cardinality({k \in 1..Len(docs[w]) : docs[w][k] = l})]

\* BulkIndex(docs) at a full batch: on success the worker goes on reading
\* the queue, on failure the run is aborted.
WorkerFlush(w) ==
    /\ run = "running" /\ wstate[w] = "flush"
    /\ \E ok \in BOOLEAN :
         IF ok
         THEN /\ sent' = Delivered(w)
              /\ docs' = [docs EXCEPT ![w] = <<>>]
              /\ wstate' = [wstate EXCEPT ![w] = "recv"]
              /\ UNCHANGED <<run, fatalBy>>
         ELSE /\ Fatal("worker")
              /\ UNCHANGED <<sent, docs, wstate>>
    /\ UNCHANGED <<cfgVars, pc, retErr, orchVars, input, line, counter,
                   closed, wg, enq>>

\* The queue is closed: a worker with an empty batch is done, the others
\* send their partial batch.
WorkerDrain(w) ==
    /\ run = "running" /\ wstate[w] = "recv" /\ closed
    /\ IF docs[w] = <<>>
       THEN wstate' = [wstate EXCEPT ![w] = "done"] /\ wg' = wg - 1
       ELSE wstate' = [wstate EXCEPT ![w] = "final"] /\ wg' = wg
    /\ UNCHANGED <<cfgVars, run, fatalBy, pc, retErr, orchVars, input, line,
                   counter, closed, docs, sent, enq>>

\* BulkIndex(docs) for the last, partial batch; then wg.Done().
WorkerFinal(w) ==
    /\ run = "running" /\ wstate[w] = "final"
    /\ \E ok \in BOOLEAN :
         IF ok
         THEN /\ sent' = Delivered(w)
              /\ docs' = [docs EXCEPT ![w] = <<>>]
              /\ wstate' = [wstate EXCEPT ![w] = "done"]
              /\ wg' = wg - 1
              /\ UNCHANGED <<run, fatalBy>>
         ELSE /\ Fatal("worker")
              /\ UNCHANGED <<sent, docs, wstate, wg>>
    /\ UNCHANGED <<cfgVars, pc, retErr, orchVars, input, line, counter,
                   closed, enq>>

\* ------------------------------------------------------ specification
Next ==
    \/ Preflight
    \/ Spawn
    \/ GetSettingsStep
    \/ DisableRefresh
    \/ ZeroReplicas
    \/ OpenReader
    \/ ReadLine
    \/ ReadEOF
    \/ ReadError
    \/ \E w \in Workers : Enqueue(w)
    \/ Count
    \/ Close
    \/ Wait
    \/ Finish
    \/ \E w \in Workers : WorkerFlush(w)
    \/ \E w \in Workers : WorkerDrain(w)
    \/ \E w \in Workers : WorkerFinal(w)
    \/ RestoreRefresh
    \/ RestoreReplicas
    \/ Flush

Spec == Init /\ [][Next]_vars

SpecPipeline == InitPipeline /\ [][Next]_vars

\* Every request is answered with a status < 400, no bulk request fails and
\* nothing else goes wrong: Run has no error to return.
Healthy == allOK /\ run # "fatal" /\ retErr = "nil"

\* The steps of a run in which nothing fails: every step of Run and of the
\* workers but the read error, each with its successful outcome.
NextHealthy ==
    \/ Preflight /\ Healthy'
    \/ Spawn /\ Healthy'
    \/ GetSettingsStep /\ Healthy'
    \/ DisableRefresh /\ Healthy'
    \/ ZeroReplicas /\ Healthy'
    \/ OpenReader /\ Healthy'
    \/ ReadLine /\ Healthy'
    \/ ReadEOF /\ Healthy'
    \/ \E w \in Workers : Enqueue(w) /\ Healthy'
    \/ Count /\ Healthy'
    \/ Close /\ Healthy'
    \/ Wait /\ Healthy'
    \/ Finish /\ Healthy'
    \/ \E w \in Workers : WorkerFlush(w) /\ Healthy'
    \/ \E w \in Workers : WorkerDrain(w) /\ Healthy'
    \/ \E w \in Workers : WorkerFinal(w) /\ Healthy'
    \/ RestoreRefresh /\ Healthy'
    \/ RestoreReplicas /\ Healthy'
    \/ Flush /\ Healthy'

\* A healthy run under fair scheduling: Run and the workers are goroutines
\* of one process, and a goroutine that can take a step is scheduled; a
\* request that is under way returns.
SpecLive == InitLive /\ [][NextHealthy]_vars /\ WF_vars(NextHealthy)

TypeOK ==
    /\ run \in {"running", "returned", "fatal"}
    /\ retErr \in {"nil", "err"}
    /\ counter \in 0..MaxLines
    /\ wg \in 0..MaxWorkers
    /\ ran \subseteq Servers
    /\ \A s \in Servers : srv[s] \in 0..MaxReplicas

\* ------------------------------------------------------------ properties

Range(q) == { q[k] : k \in 1..Len(q) }

\* Iterations of the setup loop that have issued a mutating settings request.
Mutated == { k \in Servers : refreshOff[k] # "none" }

\* Iterations for which a closure was deferred.
Registered == { defers[d].iter : d \in 1..Len(defers) }

\* A deferred closure has just run to its end: `issued` and `lastReq` are its.
ClosureEnded == ran # {} /\ pc \in {"restore_refresh", "done"}

AllThree == <<"refresh_restore", "replicas_restore", "flush">>

\* Lines of the input read so far that are not blank and parse as JSON.
JSONLines == { l \in 1..Len(input) : IsJSON(TrimSpace(input[l].text)) }

\* C1: when Run returns nil, every line that was enqueued has been carried
\* by exactly one bulk request, and no other line by any.
C1_ExactlyOnce ==
    (run = "returned" /\ retErr = "nil") =>
        \A l \in 1..MaxLines : sent[l] = (IF l \in Range(enq) THEN 1 ELSE 0)

\* Run has returned nil after two workers shared three lines in batches of two.
C1_Witness ==
    /\ run = "returned" /\ retErr = "nil"
    /\ r.NumWorkers = 2 /\ r.BatchSize = 2
    /\ Len(enq) = 3
    /\ \A l \in 1..3 : sent[l] = 1

\* C2: once an iteration has issued a settings mutation, every end of the
\* run other than a worker's abort (return, error return, gzip failure,
\* read error) comes after that iteration's closure has run.
C2_RestoredBeforeEnd ==
    (run # "running" /\ fatalBy # "worker") => Mutated \subseteq ran

\* C3: when Run returns, every spawned worker has terminated and holds no
\* batch.
C3_WorkersJoined ==
    run = "returned" =>
        \A w \in Workers : wstate[w] \in {"none", "done"} /\ docs[w] = <<>>

\* C4: a line is enqueued only after the refresh_interval = -1 request of
\* every iteration came back without error and with a status < 400; after
\* a failed one Run returns an error and nothing was enqueued.
C4_NoLineBeforeRefreshOff ==
    /\ (enq # <<>> \/ pc = "send") =>
           \A k \in Servers : refreshOff[k] = "ok"
    /\ (\E k \in Servers : refreshOff[k] \in {"status", "err"}) =>
           /\ retErr = "err"
           /\ enq = <<>> /\ counter = 0 /\ input = <<>>
           /\ run # "fatal"

\* The second server rejected the request with a status >= 400 and Run has
\* returned.
C4_Witness ==
    /\ run = "returned"
    /\ r.NumServers = 2
    /\ refreshOff[1] = "ok" /\ refreshOff[2] = "status"

\* C5: when a worker aborts the run after two iterations have mutated
\* settings, both closures have run by the time the run is over.
C5_WorkerFailureRestores ==
    (run # "running" /\ fatalBy = "worker" /\ {1, 2} \subseteq Mutated) =>
        {1, 2} \subseteq ran

\* C6: when Run returns, every closure that was registered has run: as many
\* have run as were registered, whichever iteration the setup failed at.
C6_AllCleanupsRun ==
    run = "returned" =>
        /\ ran = Registered
        /\ Cardinality(ran) = Len(defers)

\* GetSettings failed for the second server; the closure of the first has
\* run.
C6_Witness ==
    /\ run = "returned" /\ retErr = "err"
    /\ i = 2 /\ lastReq.kind = "flush"
    /\ Len(defers) = 1 /\ ran = {1}

\* C7 as stated: every closure that has run issued all three requests.
C7_AllThreeAlways ==
    ClosureEnded => issued = AllThree

\* C7 as amended: the requests go out in the order refresh_interval,
\* number_of_replicas, flush; each is issued only after the one before it
\* came back without a transport error, and the closure ends early exactly
\* when a request fails with one.
C7_InOrderUntilError ==
    /\ pc = "restore_replicas" =>
           /\ issued = SubSeq(AllThree, 1, 1)
           /\ lastReq.kind = "refresh_restore" /\ lastReq.outcome # "err"
    /\ pc = "flush" =>
           /\ issued = SubSeq(AllThree, 1, 2)
           /\ lastReq.kind = "replicas_restore" /\ lastReq.outcome # "err"
    /\ ClosureEnded =>
           /\ \E n \in 1..3 : issued = SubSeq(AllThree, 1, n)
           /\ lastReq.kind = issued[Len(issued)]
           /\ Len(issued) < 3 <=> lastReq.outcome = "err" /\ lastReq.kind # "flush"

\* A closure ended after two requests: the number_of_replicas restore
\* failed with a transport error and the flush was not issued.
C7_Witness ==
    /\ ClosureEnded
    /\ issued = SubSeq(AllThree, 1, 2)
    /\ lastReq.outcome = "err"

\* C8: after a run in zero-replica mode in which every request succeeded,
\* every server has the number_of_replicas it had before the run.
C8_ReplicaRoundTrip ==
    (run = "returned" /\ retErr = "nil" /\ r.ZeroReplica /\ allOK) =>
        \A s \in Servers : srv[s] = srv0[s]

\* C9: in skip mode, when Run returns nil the counter is the number of
\* lines of the input that are not blank and parse as JSON.
C9_SkipCount ==
    (run = "returned" /\ retErr = "nil" /\ r.SkipBroken) =>
        counter = Cardinality(JSONLines)

\* C10: when a request of a closure failed with a transport error, Run
\* returns a non-nil error.
C10_CleanupErrorReturned ==
    run = "returned" =>
        ((\E d \in 1..Len(defers) : defers[d].err = "err") => retErr = "err")

\* The settings requests of the setup loop and of the closures.
SettingsKinds ==
    {"refresh_off", "replicas_zero", "refresh_restore", "replicas_restore"}

\* C11: a settings request issued by iteration i of the setup loop, or by
\* the closure that iteration deferred, is sent to server i.
C11_SettingsToOwnServer ==
    lastReq.kind \in SettingsKinds => lastReq.server = lastReq.iter

\* C12: the flush request of the closure deferred by iteration i is sent to
\* server i.
C12_FlushToOwnServer ==
    lastReq.kind = "flush" => lastReq.server = lastReq.iter

\* C13: the number_of_replicas a closure holds is the value its server had
\* before the run.
C13_SnapshotIsPreRun ==
    \A d \in 1..Len(defers) :
        defers[d].numberOfReplicas = DigitStr(srv0[defers[d].iter])

\* C19: after a number_of_replicas = 0 request answered with a status
\* >= 400, Run is returning an error (and so reads and enqueues nothing).
C19_RejectedZeroReplicasReturns ==
    (lastReq.kind = "replicas_zero" /\ lastReq.outcome = "status") =>
        /\ retErr = "err"
        /\ pc \in {"restore_refresh", "done"}

\* Positions of Run inside a deferred closure.
CleanupPcs == {"restore_refresh", "restore_replicas", "flush"}

\* Positions of Run before the end of the setup loop.
SetupPcs == {"start", "spawn", "get", "refresh_off", "replicas_zero"}

\* C14: no worker holds a batch (unsent, or in a bulk request under way)
\* while the setup loop is running, while a closure is running or after Run
\* has returned: the bulk requests lie between the setup and the cleanup.
C14_Bracketed ==
    (pc \in SetupPcs \cup CleanupPcs \/ run = "returned") =>
        \A w \in Workers : docs[w] = <<>>

\* Lines of the input read so far that the loop body does not drop.
Enqueueable == { l \in 1..Len(input) : ~Dropped(input[l].text) }

\* C18: when Run has read the input to its end, the lines handed to the
\* workers are the lines that are neither blank nor (in skip mode) broken,
\* the last line of the file included, each once and in input order.
C18_AllLinesEnqueued ==
    (pc \in {"close", "wait", "memprofile"}) =>
        /\ Range(enq) = Enqueueable
        /\ \A a \in 1..Len(enq) : \A b \in 1..Len(enq) : a < b => enq[a] < enq[b]

\* Lines the producer has read and will enqueue, not yet taken by a worker.
Pending ==
    { l \in Enqueueable : input[l].terminated /\ l \notin Range(enq) }

\* Lines a worker has taken that no bulk request has carried yet.
Held == { l \in Range(enq) : sent[l] = 0 }

\* C16: at most one line is read and not yet taken by a worker, it is the
\* line the producer is sending, and no line is read while it waits; the
\* lines read and not yet sent are at most NumWorkers * BatchSize + 1.
C16_Backpressure ==
    /\ Cardinality(Pending) <= 1
    /\ Pending # {} => pc = "send" /\ Pending = {line}
    /\ Cardinality(Pending) + Cardinality(Held)
           <= r.NumWorkers * r.BatchSize + 1

\* The bound is met: one worker holds a full batch of two and the producer
\* waits with the third line.
C16_Witness ==
    /\ r.NumWorkers = 1 /\ r.BatchSize = 2
    /\ pc = "send" /\ Pending = {3}
    /\ Held = {1, 2}

\* Documents carried by the bulk requests sent so far, lines 1..n.
RECURSIVE SentUpTo(_)
SentUpTo(n) == IF n = 0 THEN 0 ELSE sent[n] + SentUpTo(n - 1)

\* C17 as stated: in every state the counter is the number of lines handed
\* to a worker, and on a nil return the number of documents sent.
C17_CounterIsHandOffs ==
    /\ counter = Len(enq)
    /\ (run = "returned" /\ retErr = "nil") => counter = SentUpTo(MaxLines)

\* C17 as amended: the counter is the number of lines handed to a worker,
\* less the one just handed off while Run is between `queue <- line` and
\* `counter++`; it moves with Run's position only, so no worker step
\* changes it; on a nil return it is the number of documents sent.
C17_CounterLagsByOne ==
    /\ counter = Len(enq) - (IF pc = "count" THEN 1 ELSE 0)
    /\ (run = "returned" /\ retErr = "nil") => counter = SentUpTo(MaxLines)

\* The second line was handed off and its bulk request has been sent, and
\* the counter still says one.
C17_Witness ==
    /\ pc = "count" /\ counter = 1
    /\ Len(enq) = 2 /\ sent[enq[2]] = 1

\* Run waits on `queue <- line` and there is no worker to receive.
Blocked == run = "running" /\ pc = "send" /\ r.NumWorkers = 0

====
